---- MODULE Spec2Model ----
(***************************************************************************)
(* Model of the presenter's BluetoothService (session registry, command    *)
(* fan-out, chunk reassembly) and ExecutionController (run engine).        *)
(*                                                                         *)
(* JavaScript runs the code between two suspension points (an awaited      *)
(* characteristic.writeValue, a setTimeout delay) without interleaving.    *)
(* Every action below is one such segment: an external call (a click, a    *)
(* GATT event) or the resumption of one suspended async call, run up to    *)
(* its next suspension.                                                    *)
(***************************************************************************)
EXTENDS Integers, Sequences, FiniteSets, TLC

\* ------------------------------------------------------------------ bounds
MaxRobotId == 2      \* connects the model performs (robot ids 1..MaxRobotId)
MaxRunRobots == 1    \* connects the model performs where it follows whole runs
MaxCalls == 2        \* async calls the model follows (accepted runs, forceStops, dispatches)
MaxLoop == 2         \* passes of a repeat-mode run before the model stops following it
MaxTotal == 3        \* fragments of the longest message a robot sends
MaxCompleted == 2    \* reconstructed messages the model follows
MaxDevices == 2      \* physical devices the chooser offers
MaxRegistered == 3   \* registrations the model performs where it follows whole connect calls
MaxConnecting == 2   \* connect calls between device selection and registration at once
MaxSaves == 1        \* edits of the action store the model follows
MaxFold == 2         \* passes the model counts where it follows runs without end
MaxHistory == 3      \* events of a call's history it keeps there
MaxForceCalls == 3   \* async calls the model follows where it follows forced stops
MaxStoreSaves == 3   \* edits of the action store the model follows where it follows the store alone
MaxActions == 6      \* actions in the store there

NULL == "null"

VARIABLES
    \* BluetoothService
    robots,                  \* keys of the robots Map, in insertion order
    nextRobotId,
    \* robot.device of every robot registered so far (the device whose
    \* gattserverdisconnected listener names the robot), by robot id
    devices,
    \* the devices of the connect() calls that are past the already-connected
    \* check and await the GATT steps, in call order
    connecting,
    \* times onRobotsChange was called
    robotsChanges,
    \* robot ids for which handleDisconnection ran when the robot was not in the Map
    absentCalls,
    \* ActionManager
    actions,
    \* localStorage['presenter_actions'], as parsed
    storage,
    \* times saveActions ran (it persists, then calls onActionsChange)
    saves,
    \* ids generateId has produced
    generated,
    \* what the last importActions call returned
    importResult,
    \* ExecutionController
    isRunning, shouldStop, currentAction, currentInstructionIndex, loopCount, runMode,
    \* async calls in flight (runOnce/runLoop/forceStop, dispatches), in call order
    calls,
    \* the message of the last notifyError
    lastError,
    \* BluetoothService.chunkedMessages: key -> {chunks, receivedCount, total}
    chunkedMessages,
    \* the reconstructed messages, in the order handleChunkedMessage joined them
    completed,
    \* how many fragments the message each robot sends was split into
    totals,
    \* per open buffer: what arrived for it since it was opened
    seen,
    \* the same for the buffer of the last reconstructed message
    finished,
    \* the joystick page's BluetoothService: robots (the keys of its Map, in
    \* insertion order), nextRobotId, updateInterval, updateCallback; with them the
    \* device of every robot registered so far, the devices of the connect() calls
    \* that await their GATT steps, the intervals set and not cleared, and the id
    \* the next setInterval returns
    joystick

vars == <<robots, nextRobotId, devices, connecting, robotsChanges, absentCalls,
          actions, storage, saves, generated, importResult, isRunning, shouldStop, currentAction,
          currentInstructionIndex, loopCount, runMode, calls, lastError,
          chunkedMessages, completed, totals, seen, finished, joystick>>

chunkVars == <<chunkedMessages, completed, totals, seen, finished>>

linkVars == <<devices, connecting, robotsChanges, absentCalls>>

storeVars == <<actions, storage, saves, generated, importResult>>

\* ------------------------------------------------------------- action store
NoAction == [id |-> NULL, instructions |-> <<>>]

\* An entry of a stored instruction list that is not an object (loadActions and
\* createAction take the list as it comes): reading its .tool throws
NullInstr == [tool |-> NULL, delay |-> -1]

\* The icon and the colour createAction and importActions default to
DefaultIcon == "clapper"
DefaultColor == "#667eea"

InitialActions ==
    << [id |-> "a1", name |-> "Greet", icon |-> DefaultIcon, color |-> "#ff0000",
        instructions |-> << [tool |-> "pose", delay |-> 500],
                            [tool |-> "wave", delay |-> 0] >>],
       [id |-> "a2", name |-> "Sit", icon |-> "chair", color |-> DefaultColor,
        instructions |-> << [tool |-> "sit", delay |-> 500] >>],
       [id |-> "a3", name |-> "Broken", icon |-> DefaultIcon, color |-> DefaultColor,
        instructions |-> << NullInstr >>],
       [id |-> "a0", name |-> "Empty", icon |-> DefaultIcon, color |-> DefaultColor,
        instructions |-> << >>] >>

ActionIds == {"a1", "a2", "a3", "missing"}
\* with the action whose instruction list is empty (createAction's default,
\* importActions' value for a missing list)
StartIds == ActionIds \cup {"a0"}
Modes == {"once", "loop"}

NoResult == [success |-> FALSE, count |-> 0, error |-> NULL]

\* actions.find(a => a.id === actionId); undefined is NoAction
getAction(store, actionId) ==
    IF \E k \in 1..Len(store) : store[k].id = actionId
    THEN store[CHOOSE k \in 1..Len(store) :
                  /\ store[k].id = actionId
                  /\ \A j \in 1..(k - 1) : store[j].id # actionId]
    ELSE NoAction

ActionIdsOf(store) == {store[k].id : k \in 1..Len(store)}

\* this.actions.findIndex(a => a.id === actionId), counted from 1; -1 is 0
IndexOf(store, actionId) ==
    IF \E k \in 1..Len(store) : store[k].id = actionId
    THEN CHOOSE k \in 1..Len(store) :
            /\ store[k].id = actionId
            /\ \A j \in 1..(k - 1) : store[j].id # actionId
    ELSE 0

\* this.actions.splice(index, 1)
Splice(store, k) == [j \in 1..(Len(store) - 1) |-> IF j < k THEN store[j] ELSE store[j + 1]]

\* generateId(): the g-th id it returns ('action_' + Date.now() + '_' + random)
GeneratedId(g) == "g" \o ToString(g)

\* A default that is taken whatever the field holds
AlwaysDefault(x, d) == d

\* x || d for a string field: d when x is missing (NULL) or empty
Or(x, d) == IF x \in {NULL, ""} THEN d ELSE x

\* An object of an imported array: a field it lacks is NULL; isList tells whether
\* its instructions is an array; an instruction's tool is NULL when it has none
Item(id, name, isList, instructions) ==
    [id |-> id, name |-> name, icon |-> NULL, color |-> NULL,
     isList |-> isList, instructions |-> instructions]

\* What importActions can be given: text that is not JSON, JSON that is not an
\* array, or an array of objects
ImportInputs ==
    { [json |-> "malformed", items |-> <<>>],
      [json |-> "object", items |-> <<>>],
      [json |-> "array", items |-> <<>>],
      [json |-> "array",
       items |-> << Item("a1", "Turn", TRUE, << [tool |-> "turn", delay |-> 0] >>) >>],
      [json |-> "array",
       items |-> << Item("b1", NULL, TRUE, << [tool |-> NULL, delay |-> 0] >>),
                    Item(NULL, "", FALSE, <<>>) >>],
      [json |-> "array",
       items |-> << Item("a1", "Turn", TRUE, << [tool |-> "turn", delay |-> 0] >>),
                    Item("b1", "Bow", TRUE, << [tool |-> "bow", delay |-> 500] >>) >>],
      [json |-> "array",
       items |-> << Item("b1", "Bow", TRUE, << [tool |-> "bow", delay |-> 500] >>),
                    Item("b1", "Nod", TRUE, << [tool |-> "nod", delay |-> 0] >>) >>] }

\* JSON.stringify(this.actions, null, 2), as JSON.parse reads it back: an array
\* with one object per action, carrying the fields the action has
exportActions(store) ==
    [json |-> "array",
     items |-> [k \in 1..Len(store) |->
                   [id |-> store[k].id, name |-> store[k].name, icon |-> store[k].icon,
                    color |-> store[k].color, isList |-> TRUE,
                    instructions |-> store[k].instructions]]]

\* { tool: inst.tool || '', arguments: inst.arguments || {}, delay: inst.delay || 0 }
CleanInstruction(inst) ==
    [tool |-> Or(inst.tool, ""),
     delay |-> IF inst.delay = 0 THEN 0 ELSE inst.delay]

\* inst.tool of an entry that is null throws a TypeError
Throws(it) == it.isList /\ \E k \in 1..Len(it.instructions) : it.instructions[k] = NullInstr

\* imported.map(action => ({ id: action.id || this.generateId(), name: action.name ||
\* 'Imported Action', icon: ..., color: ..., instructions:
\* Array.isArray(action.instructions) ? action.instructions.map(...) : [] })),
\* with g the ids generated so far; threw when the map stopped at a TypeError
RECURSIVE CleanItems(_, _)
CleanItems(items, g) ==
    IF items = <<>> THEN [list |-> <<>>, g |-> g, threw |-> FALSE]
    ELSE LET it == Head(items)
             g1 == IF it.id \in {NULL, ""} THEN g + 1 ELSE g
             a == [id |-> IF it.id \in {NULL, ""} THEN GeneratedId(g1) ELSE it.id,
                   name |-> Or(it.name, "Imported Action"),
                   icon |-> Or(it.icon, DefaultIcon),
                   color |-> Or(it.color, DefaultColor),
                   instructions |->
                       IF it.isList
                       THEN [k \in 1..Len(it.instructions) |->
                                CleanInstruction(it.instructions[k])]
                       ELSE <<>>]
         IN IF Throws(it) THEN [list |-> <<>>, g |-> g1, threw |-> TRUE]
            ELSE LET rest == CleanItems(Tail(items), g1)
                 IN [list |-> <<a>> \o rest.list, g |-> rest.g, threw |-> rest.threw]

\* A merge in which an imported action takes the place of the stored one it clashes with
MergeOverwriting(store, valid, existingIds, g) ==
    LET Clash(k) == \E j \in 1..Len(valid) : valid[j].id = store[k].id
        Last(k) == CHOOSE j \in 1..Len(valid) :
                      /\ valid[j].id = store[k].id
                      /\ \A i \in (j + 1)..Len(valid) : valid[i].id # store[k].id
    IN [list |-> [k \in 1..Len(store) |-> IF Clash(k) THEN valid[Last(k)] ELSE store[k]]
                    \o SelectSeq(valid, LAMBDA a : a.id \notin existingIds),
        g |-> g]

\* for (const action of validActions) if (!existingIds.has(action.id))
\*     { action.id = this.generateId(); this.actions.push(action); }
RECURSIVE MergeInto(_, _, _, _)
MergeInto(store, valid, existingIds, g) ==
    IF valid = <<>> THEN [list |-> store, g |-> g]
    ELSE IF Head(valid).id \notin existingIds
    THEN MergeInto(Append(store, [Head(valid) EXCEPT !.id = GeneratedId(g + 1)]),
                   Tail(valid), existingIds, g + 1)
    ELSE MergeInto(store, Tail(valid), existingIds, g)

\* A failure found after the list was emptied and saved
ImportFailureAfterClear(store, g, error) ==
    [actions |-> <<>>, generated |-> g, saved |-> TRUE,
     result |-> [success |-> FALSE, count |-> 0, error |-> error]]

\* catch (error) { return { success: false, error: error.message } }: nothing was
\* assigned or saved before the throw
ImportFailure(store, g, error) ==
    [actions |-> store, generated |-> g, saved |-> FALSE,
     result |-> [success |-> FALSE, count |-> 0, error |-> error]]

\* importActions(jsonString, replace) on the list store: the list and the ids
\* generated after it, whether saveActions ran, and what it returns
ImportOutcome(store, g, input, replace) ==
    IF input.json = "malformed"
    THEN \* JSON.parse throws
         ImportFailure(store, g, "SyntaxError")
    ELSE IF input.json # "array"
    THEN ImportFailure(store, g, "Invalid format: expected an array")
    ELSE LET c == CleanItems(input.items, g)
             m == IF replace THEN [list |-> c.list, g |-> c.g]
                  ELSE MergeInto(store, c.list, ActionIdsOf(store), c.g)
         IN IF c.threw
            THEN ImportFailure(store, c.g, "TypeError")
            ELSE [actions |-> m.list, generated |-> m.g, saved |-> TRUE,
                  result |-> [success |-> TRUE, count |-> Len(c.list), error |-> NULL]]

\* ------------------------------------------------------------------ registry
Range(s) == {s[k] : k \in 1..Len(s)}

getConnectedCount(rb) == Len(rb)

RemoveRobot(rb, r) == SelectSeq(rb, LAMBDA x : x # r)

Put(f, k, v) == [x \in (DOMAIN f) \cup {k} |-> IF x = k THEN v ELSE f[x]]
Drop(f, k) == [x \in (DOMAIN f) \ {k} |-> f[x]]

Devices == 1..MaxDevices

\* An identifier taken from the size of the Map
RobotIdFromSize(next, rb) == Len(rb) + 1

\* const robotId = this.nextRobotId++
NewRobotId(next, rb) == next

\* for (const [id, robot] of this.robots.entries()) if (robot.device.id === device.id)
AlreadyConnected(rb, dv, device) == \E r \in Range(rb) : dv[r] = device

RemoveAt(q, k) == [j \in 1..(Len(q) - 1) |-> IF j < k THEN q[j] ELSE q[j + 1]]

\* The entries a live Map iterator has still to yield after the one at key cur
\* (0: none yielded yet). Keys are inserted in increasing order and never
\* reinserted, so these are the keys greater than cur that are in the Map now.
IterRest(rb, cur) == {r \in Range(rb) : r > cur}
IterNext(rb, cur) == CHOOSE r \in IterRest(rb, cur) : \A q \in IterRest(rb, cur) : r <= q

\* ------------------------------------------------------- async call frames
NoInstr == [tool |-> NULL, delay |-> 0]

\* kind    "run" (runOnce/runLoop) | "force" (forceStop) | "bus" (a direct dispatch)
\* pc      where the call stands; "write", "timer" and "done" are suspended
\* stage   which await it is in: start | instr | loop | stop | force | bus
\* i       the for-loop index of executeAction (0-based)
\* instr   the const instruction of the loop body
\* cur, results   the iterator position and the results list of the dispatch
\* writes  the writeValue calls of the dispatch and how each settled (of an
\*         instruction's dispatch: kept until the call's next dispatch begins)
\* result  what executeAction returned
\* History kept for the properties, never read by the code:
\* mode, action   what the call was started with
\* pass    passes over the instruction list this call began
\* snap, changed  the Map when the dispatch began; membership changed since
\* hist    what the call did, and the stop requests made while it was in flight
NewFrame(kind, stage, mode, action) ==
    [kind |-> kind, pc |-> "broadcast", stage |-> stage, i |-> 0, instr |-> NoInstr,
     cur |-> 0, results |-> <<>>, writes |-> <<>>, result |-> FALSE,
     mode |-> mode, action |-> action, pass |-> 0,
     snap |-> <<>>, changed |-> FALSE, hist |-> <<>>]

Suspended == {"write", "timer", "done"}

Ev(ev, n, i, lc) == [ev |-> ev, n |-> n, i |-> i, lc |-> lc]
Mark(ev) == Ev(ev, 0, 0, 0)

\* Which of the two continuation tests of the do-while holds
KeepLooping(s) == s.runMode = "loop" /\ ~s.shouldStop /\ s.isRunning

\* The per-instruction check of the for loop
StopsBeforeInstruction(s) == ~s.isRunning

\* The list read from the store at every use
InstructionsFromStore(s) == getAction(actions, s.currentAction.id).instructions

\* this.currentAction.instructions: the list of the object runOnce / runLoop got
\* from getAction; no operation of the store writes to that object
Instructions(s) == s.currentAction.instructions

\* A delay that is never waited for
NeverAwaitsDelay(instruction) == FALSE

\* if (instruction.delay && instruction.delay > 0) await this.delay(instruction.delay)
AwaitsDelay(instruction) == instruction.delay > 0

\* A stop signal sent only after a pass that did not fail
SendsStopOnlyOnSuccess(result) == result

\* runOnce / runLoop: await this.sendStopSignal() follows await this.executeAction()
\* whatever it returned
SendsStopAfter(result) == TRUE

\* A rejected write of an instruction dispatch that is raised into executeAction
AfterWriteRaises(f, ok) ==
    IF ~ok /\ f.kind = "run" /\ f.stage = "instr" THEN "catch" ELSE "iter"

\* executeToolOnAll / sendToAll: the try around the awaited send catches the
\* rejection, so the for loop goes on with the next entry either way
AfterWrite(f, ok) == "iter"

\* A failed send that is not recorded
PushResultDropsFailure(results, robotId, ok) ==
    IF ok THEN Append(results, [robotId |-> robotId, success |-> TRUE]) ELSE results

\* results.push({ robotId, robotName, success: true }) after the awaited send, or
\* results.push({ ..., success: false, error }) in the catch
PushResult(results, robotId, ok) == Append(results, [robotId |-> robotId, success |-> ok])

\* One synchronous piece of the call s.f (call number s.t), on the engine
\* fields carried in s, with rb the robots Map.
Micro(s, rb) ==
    LET f == s.f
        Did(e) == Append(f.hist, e)
        go(pc) == [s EXCEPT !.f.pc = pc]
    IN
    CASE f.pc = "broadcast" ->
            \* executeToolOnAll / sendToAll: const results = []; for (... of this.robots.entries())
            [s EXCEPT !.f.pc = "iter", !.f.cur = 0, !.f.results = <<>>, !.f.writes = <<>>,
                      !.f.snap = rb, !.f.changed = FALSE]
      [] f.pc = "iter" ->
            IF IterRest(rb, f.cur) # {}
            THEN \* sendToRobot: the robot is in the Map; await writeValue
                 [s EXCEPT !.f.pc = "write", !.f.cur = IterNext(rb, f.cur)]
            ELSE \* return results
                 go("ret")
      [] f.pc = "ret" ->
            CASE f.stage = "bus" -> go("done")
              [] f.stage = "instr" ->
                    \* executeInstruction logs the results and drops them;
                    \* if (instruction.delay && instruction.delay > 0) await this.delay(...)
                    [s EXCEPT !.f.pc = IF AwaitsDelay(f.instr) THEN "timer" ELSE "forNext",
                              !.f.results = <<>>, !.f.snap = <<>>,
                              !.f.changed = FALSE,
                              !.f.cur = 0]
              [] OTHER ->
                    \* sendStartSignal / sendStopSignal: await this.delay(300 / 500)
                    [s EXCEPT !.f.pc = "timer",
                              !.f.results = <<>>, !.f.writes = <<>>, !.f.snap = <<>>,
                              !.f.changed = FALSE,
                              !.f.cur = 0]
      [] f.pc = "execBegin" ->
            IF s.currentAction = NoAction
            THEN [s EXCEPT !.f.pc = "execReturn", !.f.result = FALSE]
            ELSE [s EXCEPT !.f.pc = "doTop", !.isRunning = TRUE,
                           !.f.hist = Did(Mark("running"))]
      [] f.pc = "doTop" ->
            [s EXCEPT !.f.pc = "forCheck", !.f.i = 0, !.f.pass = f.pass + 1,
                      !.loopCount = s.loopCount + 1]
      [] f.pc = "forCheck" ->
            IF f.i < Len(Instructions(s))
            THEN IF StopsBeforeInstruction(s)
                 THEN go("afterFor")
                 ELSE IF Instructions(s)[f.i + 1] = NullInstr
                 THEN \* notifyProgress(..., instruction.tool) throws a TypeError
                      [s EXCEPT !.f.pc = "catch", !.currentInstructionIndex = f.i]
                 ELSE [s EXCEPT !.f.pc = "broadcast", !.f.stage = "instr",
                                !.f.instr = Instructions(s)[f.i + 1],
                                !.currentInstructionIndex = f.i,
                                !.f.hist = Did(Ev("instr", f.pass, f.i, s.loopCount))]
            ELSE go("afterFor")
      [] f.pc = "forNext" ->
            [s EXCEPT !.f.pc = "forCheck", !.f.i = f.i + 1]
      [] f.pc = "afterFor" ->
            IF KeepLooping(s)
            THEN [s EXCEPT !.f.pc = "timer", !.f.stage = "loop"]
            ELSE go("whileCond")
      [] f.pc = "whileCond" ->
            IF KeepLooping(s) THEN go("doTop") ELSE go("finish")
      [] f.pc = "finish" ->
            [s EXCEPT !.f.pc = "execReturn", !.f.result = TRUE, !.isRunning = FALSE,
                      !.f.hist = Did(Ev("completed", f.pass, 0, s.loopCount))]
      [] f.pc = "catch" ->
            [s EXCEPT !.f.pc = "execReturn", !.f.result = FALSE, !.isRunning = FALSE,
                      !.lastError = "TypeError",
                      !.f.hist = Did(Ev("failed", f.pass, 0, s.loopCount))]
      [] f.pc = "execReturn" ->
            \* const result = await this.executeAction(); await this.sendStopSignal()
            IF SendsStopAfter(f.result)
            THEN go("stopSignal")
            ELSE [s EXCEPT !.f.pc = "done", !.f.hist = Did(Mark("returned"))]
      [] f.pc = "stopSignal" ->
            [s EXCEPT !.f.pc = "broadcast", !.f.stage = "stop",
                      !.f.hist = Did(Mark("quit"))]
      [] f.pc = "afterTimer" ->
            CASE f.stage = "start" -> go("execBegin")
              [] f.stage = "instr" -> go("forNext")
              [] f.stage = "loop"  -> go("whileCond")
              [] f.stage = "stop"  -> [s EXCEPT !.f.pc = "done",
                                                !.f.hist = Did(Mark("returned"))]
              [] f.stage = "force" -> [s EXCEPT !.f.pc = "done",
                                                !.f.hist = Did(Mark("stopped"))]

\* The call s.f run from where it stands up to its next await (or its return)
RECURSIVE Run(_, _)
Run(s, rb) ==
    IF s.f.pc \in Suspended THEN s
    ELSE CHOOSE r \in {Run(n, rb) : n \in {Micro(s, rb)}} : TRUE

Pack(t, f) ==
    [isRunning |-> isRunning, shouldStop |-> shouldStop, currentAction |-> currentAction,
     currentInstructionIndex |-> currentInstructionIndex, loopCount |-> loopCount,
     runMode |-> runMode, lastError |-> lastError, t |-> t, f |-> f]

\* Store the outcome s of running call s.t; cs is the calls list it belongs to.
Unpack(s, cs) ==
    /\ isRunning' = s.isRunning
    /\ shouldStop' = s.shouldStop
    /\ currentAction' = s.currentAction
    /\ currentInstructionIndex' = s.currentInstructionIndex
    /\ loopCount' = s.loopCount
    /\ runMode' = s.runMode
    /\ lastError' = s.lastError
    /\ calls' = [cs EXCEPT ![s.t] = s.f]

InFlight(f) == f.kind = "run" /\ f.pc # "done"

\* Note in the history of every run in flight that ev happened now (a stop
\* request repeated with nothing in between is noted once)
Noted(cs, ev) ==
    [t \in 1..Len(cs) |->
        IF InFlight(cs[t]) /\ (ev = "stop" => cs[t].hist[Len(cs[t].hist)].ev # ev)
        THEN [cs[t] EXCEPT !.hist = Append(cs[t].hist, Mark(ev))]
        ELSE cs[t]]

\* Membership changed while these dispatches were suspended on a write
Changed(cs) ==
    [t \in 1..Len(cs) |->
        IF cs[t].pc = "write" THEN [cs[t] EXCEPT !.changed = TRUE] ELSE cs[t]]

\* this.updateInterval = null
NoTimer == 0

\* constructor of the joystick page's BluetoothService
InitJoystick ==
    [robots |-> <<>>, nextRobotId |-> 1, updateInterval |-> NoTimer, updateCallback |-> NULL,
     devices |-> <<>>, connecting |-> <<>>, timers |-> {}, nextTimer |-> 1]

\* arrived  the distinct indices that arrived with data since the buffer opened
\* inOrder  they arrived in increasing index order
\* dup      one of them arrived again
\* stray    one of them was not below total
\* from     the sessions whose fragments were stored in the buffer
NothingSeen == [arrived |-> {}, inOrder |-> TRUE, dup |-> FALSE, stray |-> FALSE, from |-> {}]

\* ------------------------------------------------------------------ actions
Init ==
    /\ robots = <<>>
    /\ nextRobotId = 1
    /\ devices = <<>>
    /\ connecting = <<>>
    /\ robotsChanges = 0
    /\ absentCalls = {}
    /\ actions = InitialActions
    /\ storage = InitialActions
    /\ saves = 0
    /\ generated = 0
    /\ importResult = NoResult
    /\ isRunning = FALSE
    /\ shouldStop = FALSE
    /\ currentAction = NoAction
    /\ currentInstructionIndex = 0
    /\ loopCount = 0
    /\ runMode = "once"
    /\ calls = <<>>
    /\ lastError = NULL
    /\ chunkedMessages = <<>>
    /\ completed = <<>>
    /\ totals = [r \in 1..MaxRobotId |-> 1]
    /\ seen = <<>>
    /\ finished = NothingSeen
    /\ joystick = InitJoystick

engineVars == <<isRunning, shouldStop, currentAction, currentInstructionIndex,
                loopCount, runMode, lastError>>

\* connect(), from const robotId = this.nextRobotId++ to return robot: the robot
\* is registered for the device (this.robots.set keeps the place of a key the
\* Map has) and the listeners are told
Register(device) ==
    LET robotId == NewRobotId(nextRobotId, robots) IN
    /\ nextRobotId' = nextRobotId + 1
    /\ robots' = IF robotId \in Range(robots) THEN robots ELSE Append(robots, robotId)
    /\ devices' = Put(devices, robotId, device)
    /\ robotsChanges' = robotsChanges + 1
    /\ calls' = Changed(calls)

\* A whole connect() call for a device that was not selected before (the k-th
\* such device is device k), its awaits not followed
Connect ==
    /\ nextRobotId <= MaxRobotId
    /\ Register(nextRobotId)
    /\ UNCHANGED <<connecting, absentCalls, storeVars, engineVars, chunkVars, joystick>>

\* connect(), from the chooser's answer to the first GATT await: the user picked
\* device; a robot of that device in the Map is returned, else the call goes on
connectSelect(device) ==
    /\ IF AlreadyConnected(robots, devices, device)
       THEN UNCHANGED connecting
       ELSE /\ Len(connecting) < MaxConnecting
            /\ connecting' = Append(connecting, device)
    /\ UNCHANGED <<robots, nextRobotId, devices, robotsChanges, absentCalls, storeVars,
                   engineVars, calls, chunkVars, joystick>>

\* connect(): the GATT steps of the k-th pending call are done, the robot is registered
connectRegister(k) ==
    /\ k \in 1..Len(connecting)
    /\ nextRobotId <= MaxRegistered
    /\ Register(connecting[k])
    /\ connecting' = RemoveAt(connecting, k)
    /\ UNCHANGED <<absentCalls, storeVars, engineVars, chunkVars, joystick>>

\* connect(): a GATT step of the k-th pending call is rejected; the catch rethrows
connectFail(k) ==
    /\ k \in 1..Len(connecting)
    /\ connecting' = RemoveAt(connecting, k)
    /\ UNCHANGED <<robots, nextRobotId, devices, robotsChanges, absentCalls, storeVars,
                   engineVars, calls, chunkVars, joystick>>

\* A test that takes every robot id for present
FoundAlways(rb, robotId) == TRUE

\* const robot = this.robots.get(robotId); if (robot)
Found(rb, robotId) == robotId \in Range(rb)

\* handleDisconnection(robotId): the gattserverdisconnected listener that connect()
\* added for robotId on its device
handleDisconnection(robotId) ==
    /\ robotId \in DOMAIN devices
    /\ IF Found(robots, robotId)
       THEN /\ robots' = RemoveRobot(robots, robotId)
            /\ robotsChanges' = robotsChanges + 1
            /\ calls' = Changed(calls)
            /\ UNCHANGED absentCalls
       ELSE /\ absentCalls' = absentCalls \cup {robotId}
            /\ UNCHANGED <<robots, robotsChanges, calls>>
    /\ UNCHANGED <<nextRobotId, devices, connecting, storeVars, engineVars, chunkVars, joystick>>

\* The guards without the test of the connected count
StartErrorNoCountCheck(actionId) ==
    IF getAction(actions, actionId) = NoAction THEN "Action not found"
    ELSE IF isRunning THEN "Another action is already running"
    ELSE NULL

\* The guards of runOnce / runLoop, in source order
StartError(actionId) ==
    IF getAction(actions, actionId) = NoAction THEN "Action not found"
    ELSE IF isRunning THEN "Another action is already running"
    ELSE IF getConnectedCount(robots) = 0 THEN "No robots connected"
    ELSE NULL

\* What runOnce(actionId) / runLoop(actionId) does up to its first await: the
\* engine fields it leaves and, if it began a call (accepted), the call
StartOutcome(actionId, mode) ==
    LET t == Len(calls) + 1
        a == getAction(actions, actionId)
        f0 == NewFrame("run", "start", mode, a)
    IN IF StartError(actionId) # NULL
       THEN \* this.notifyError(...); return false
            [accepted |-> FALSE,
             s |-> [Pack(0, <<>>) EXCEPT !.lastError = StartError(actionId)]]
       ELSE [accepted |-> TRUE,
             s |-> Run([Pack(t, [f0 EXCEPT !.hist = <<Mark("wake")>>]) EXCEPT
                           !.runMode = mode,
                           !.currentAction = a,
                           !.loopCount = IF mode = "once" THEN 1 ELSE 0,
                           !.shouldStop = FALSE],
                       robots)]

\* runOnce(actionId) / runLoop(actionId), up to the first awaited write, where the
\* model follows at most bound calls
StartWithin(actionId, mode, bound) ==
    IF StartError(actionId) # NULL
    THEN /\ lastError' = StartError(actionId)
         /\ UNCHANGED <<robots, nextRobotId, linkVars, storeVars, isRunning, shouldStop, currentAction,
                        currentInstructionIndex, loopCount, runMode, calls, chunkVars, joystick>>
    ELSE /\ Len(calls) < bound
         /\ LET o == StartOutcome(actionId, mode)
            IN Unpack(o.s, Append(calls, o.s.f))
         /\ UNCHANGED <<robots, nextRobotId, linkVars, storeVars, chunkVars, joystick>>

StartRun(actionId, mode) == StartWithin(actionId, mode, MaxCalls)

runOnce(actionId) == StartRun(actionId, "once")
runLoop(actionId) == StartRun(actionId, "loop")

\* requestStop(): if (this.isRunning) { this.shouldStop = true; ... }, else nothing
requestStop ==
    /\ IF isRunning
       THEN /\ shouldStop' = TRUE
            /\ calls' = Noted(calls, "stop")
       ELSE UNCHANGED <<shouldStop, calls>>
    /\ UNCHANGED <<robots, nextRobotId, linkVars, storeVars, isRunning, currentAction,
                   currentInstructionIndex, loopCount, runMode, lastError, chunkVars, joystick>>

\* forceStop(), up to the awaited write of its stop signal, where the model
\* follows at most bound calls
forceStopWithin(bound) ==
    /\ Len(calls) < bound
    /\ LET t == Len(calls) + 1
           f0 == NewFrame("force", "force", NULL, NoAction)
           s0 == [Pack(t, [f0 EXCEPT !.hist = <<Mark("quit")>>]) EXCEPT
                     !.shouldStop = TRUE,
                     !.isRunning = FALSE]
       IN Unpack(Run(s0, robots), Append(Noted(calls, "fquit"), s0.f))
    /\ UNCHANGED <<robots, nextRobotId, linkVars, storeVars, chunkVars, joystick>>

forceStop == forceStopWithin(MaxCalls)

\* Call t and the engine after its pending writeValue settled, resolved (ok) or
\* rejected, up to the call's next await
Settled(t, ok) ==
    LET f == calls[t]
    IN Run(Pack(t, [f EXCEPT !.pc = AfterWrite(f, ok),
                             !.results = PushResult(f.results, f.cur, ok),
                             !.writes = Append(f.writes, [robotId |-> f.cur, ok |-> ok])]),
           robots)

\* characteristic.writeValue settles for call t: resolved (ok) or rejected
WriteDone(t, ok) ==
    /\ calls[t].pc = "write"
    /\ Unpack(Settled(t, ok), calls)
    /\ UNCHANGED <<robots, nextRobotId, linkVars, storeVars, chunkVars, joystick>>

\* the setTimeout of this.delay(ms) fires for call t
TimerDone(t) ==
    /\ calls[t].pc = "timer"
    /\ calls[t].stage = "loop" => loopCount < MaxLoop
    /\ Unpack(Run(Pack(t, [calls[t] EXCEPT !.pc = "afterTimer"]), robots), calls)
    /\ UNCHANGED <<robots, nextRobotId, linkVars, storeVars, chunkVars, joystick>>

\* executeToolOnAll(toolName, parameters) called on its own, up to the first awaited write
executeToolOnAll(toolName) ==
    /\ Len(calls) < MaxCalls
    /\ LET t == Len(calls) + 1
           f0 == NewFrame("bus", "bus", NULL, NoAction)
           s0 == Pack(t, [f0 EXCEPT !.instr = [tool |-> toolName, delay |-> 0]])
       IN Unpack(Run(s0, robots), Append(calls, s0.f))
    /\ UNCHANGED <<robots, nextRobotId, linkVars, storeVars, chunkVars, joystick>>

\* sendToAll(message) called on its own, up to the first awaited write
sendToAll(message) ==
    /\ Len(calls) < MaxCalls
    /\ LET t == Len(calls) + 1
           f0 == NewFrame("bus", "bus", NULL, NoAction)
           s0 == Pack(t, [f0 EXCEPT !.instr = [tool |-> message, delay |-> 0]])
       IN Unpack(Run(s0, robots), Append(calls, s0.f))
    /\ UNCHANGED <<robots, nextRobotId, linkVars, storeVars, chunkVars, joystick>>

\* The engine with its registry: runs, stop requests, writes and timers
Next ==
    \/ (nextRobotId <= MaxRunRobots /\ Connect)
    \/ \E r \in Range(robots) : handleDisconnection(r)
    \/ \E a \in ActionIds : runOnce(a)
    \/ \E a \in ActionIds : runLoop(a)
    \/ requestStop
    \/ forceStop
    \/ \E t \in 1..Len(calls), ok \in BOOLEAN : WriteDone(t, ok)
    \/ \E t \in 1..Len(calls) : TimerDone(t)

Spec == Init /\ [][Next]_vars

\* The engine used by one caller that starts a run only when none is in flight
NextStart ==
    \/ (nextRobotId <= MaxRunRobots /\ Connect)
    \/ \E r \in Range(robots) : handleDisconnection(r)
    \/ \E a \in StartIds : (\A t \in 1..Len(calls) : ~InFlight(calls[t])) /\ runOnce(a)
    \/ \E a \in StartIds : (\A t \in 1..Len(calls) : ~InFlight(calls[t])) /\ runLoop(a)
    \/ requestStop
    \/ forceStop
    \/ \E t \in 1..Len(calls), ok \in BOOLEAN : WriteDone(t, ok)
    \/ \E t \in 1..Len(calls) : TimerDone(t)

SpecStart == Init /\ [][NextStart]_vars

\* The command fan-out with its registry: dispatches, membership changes, writes
NextBus ==
    \/ Connect
    \/ \E r \in Range(robots) : handleDisconnection(r)
    \/ executeToolOnAll("self.system.quit")
    \/ sendToAll("Wake Up")
    \/ \E t \in 1..Len(calls), ok \in BOOLEAN : WriteDone(t, ok)

SpecBus == Init /\ [][NextBus]_vars

\* The registry: connect calls followed through their awaits, for the devices the
\* chooser offers, and the disconnection listeners of every robot registered so far
NextRegistry ==
    \/ \E d \in Devices : connectSelect(d)
    \/ \E k \in 1..MaxConnecting : connectRegister(k)
    \/ \E k \in 1..MaxConnecting : connectFail(k)
    \/ \E r \in 1..MaxRegistered : handleDisconnection(r)

SpecRegistry == Init /\ [][NextRegistry]_vars

Min(a, b) == IF a < b THEN a ELSE b

\* The outcome s with the pass counters held at MaxFold and the history of the
\* call cut to its first MaxHistory events: what the code does next depends on
\* none of them (loopCount is only reported, part_001:139, 175, 283), so a run
\* that loops without end comes back to a state it was in
Fold(s) ==
    [s EXCEPT !.loopCount = Min(@, MaxFold),
              !.f.pass = Min(@, MaxFold),
              !.f.hist = SubSeq(@, 1, Min(Len(@), MaxHistory))]

\* characteristic.writeValue settles for call t, however many passes the call made
WriteSettles(t, ok) ==
    /\ t \in 1..Len(calls)
    /\ calls[t].pc = "write"
    /\ \E s \in {Fold(Settled(t, ok))} : Unpack(s, calls)
    /\ UNCHANGED <<robots, nextRobotId, linkVars, storeVars, chunkVars, joystick>>

\* the setTimeout of this.delay(ms) fires for call t, however many passes the call made
TimerFires(t) ==
    /\ t \in 1..Len(calls)
    /\ calls[t].pc = "timer"
    /\ \E s \in {Fold(Run(Pack(t, [calls[t] EXCEPT !.pc = "afterTimer"]), robots))} :
          Unpack(s, calls)
    /\ UNCHANGED <<robots, nextRobotId, linkVars, storeVars, chunkVars, joystick>>

LiveIds == {"a2", "a3"}

\* The engine with one robot, its runs followed without a bound on their passes
NextLive ==
    \/ (nextRobotId <= MaxRunRobots /\ Connect)
    \/ \E a \in LiveIds : runOnce(a)
    \/ \E a \in LiveIds : runLoop(a)
    \/ requestStop
    \/ \E t \in 1..MaxCalls, ok \in BOOLEAN : WriteSettles(t, ok)
    \/ \E t \in 1..MaxCalls : TimerFires(t)

\* Every pending write settles and every pending timer fires: the browser settles
\* a writeValue promise (resolved or rejected) and runs a due setTimeout callback
Fairness ==
    \A t \in 1..MaxCalls :
        /\ WF_vars(\E ok \in BOOLEAN : WriteSettles(t, ok))
        /\ WF_vars(TimerFires(t))

SpecLive == Init /\ [][NextLive]_vars /\ Fairness

\* Every run in flight has had forceStop called for it
AllForceStopped ==
    \A t \in 1..Len(calls) :
        InFlight(calls[t]) =>
            \E k \in 1..Len(calls[t].hist) : calls[t].hist[k].ev = "fquit"

\* A run is stepping instructions and the engine shows it as running
Stepping ==
    /\ isRunning
    /\ \E t \in 1..Len(calls) :
          InFlight(calls[t]) /\ calls[t].stage \in {"instr", "loop"}

ForceIds == {"a1", "a2"}

\* The engine used by one caller that force-stops a run while it steps
\* instructions and starts a run only when no run is in flight that was not
\* force-stopped
NextForce ==
    \/ (nextRobotId <= MaxRunRobots /\ Connect)
    \/ \E a \in ForceIds : AllForceStopped /\ StartWithin(a, "once", MaxForceCalls)
    \/ \E a \in ForceIds : AllForceStopped /\ StartWithin(a, "loop", MaxForceCalls)
    \/ (Stepping /\ forceStopWithin(MaxForceCalls))
    \/ \E t \in 1..Len(calls), ok \in BOOLEAN : WriteDone(t, ok)
    \/ \E t \in 1..Len(calls) : TimerDone(t)

SpecForce == Init /\ [][NextForce]_vars

\* The engine with two robots, used by one caller that starts a run only when
\* none is in flight and force-stops it while it steps instructions
NextHalt ==
    \/ Connect
    \/ \E a \in ForceIds : (\A t \in 1..Len(calls) : ~InFlight(calls[t])) /\ runOnce(a)
    \/ \E a \in ForceIds : (\A t \in 1..Len(calls) : ~InFlight(calls[t])) /\ runLoop(a)
    \/ (Stepping /\ forceStop)
    \/ \E t \in 1..Len(calls), ok \in BOOLEAN : WriteDone(t, ok)
    \/ \E t \in 1..Len(calls) : TimerDone(t)

SpecHalt == Init /\ [][NextHalt]_vars

\* ------------------------------------------------- joystick page's service
\* An interval set at every call
NeedsTimerAlways(interval) == TRUE

\* if (!this.updateInterval)
NeedsTimer(interval) == interval = NoTimer

\* startUpdates(callback) on the service j; setInterval returns an id not used before
startUpdates(j, callback) ==
    LET k == [j EXCEPT !.updateCallback = callback] IN
    IF NeedsTimer(j.updateInterval)
    THEN [k EXCEPT !.updateInterval = j.nextTimer,
                   !.timers = @ \cup {j.nextTimer},
                   !.nextTimer = @ + 1]
    ELSE k

\* stopUpdates() on the service j
stopUpdates(j) ==
    IF j.updateInterval # NoTimer
    THEN [j EXCEPT !.timers = @ \ {j.updateInterval}, !.updateInterval = NoTimer]
    ELSE j

\* The rest of the program leaves the joystick page's service alone
joystickOnly == UNCHANGED <<robots, nextRobotId, linkVars, storeVars, engineVars, calls,
                            chunkVars>>

\* connect() up to its first GATT await: the user picked device in the chooser
joystickSelect(device) ==
    /\ Len(joystick.connecting) < MaxConnecting
    /\ joystick' = [joystick EXCEPT !.connecting = Append(@, device)]
    /\ joystickOnly

\* connect() from const robotId = this.nextRobotId++ to return robot, for the k-th
\* pending call, and handleConnect after its await: the robot is registered,
\* startUpdates() is called if it is the only one, and handleConnect calls
\* startUpdates(() => this.gamepadMapper.getState()) if the count is 1
joystickRegister(k) ==
    /\ k \in 1..Len(joystick.connecting)
    /\ joystick.nextRobotId <= MaxRegistered
    /\ LET robotId == joystick.nextRobotId
           j1 == [joystick EXCEPT !.nextRobotId = @ + 1,
                                  !.robots = Append(@, robotId),
                                  !.devices = Put(@, robotId, joystick.connecting[k]),
                                  !.connecting = RemoveAt(@, k)]
           j2 == IF Len(j1.robots) = 1 THEN startUpdates(j1, NULL) ELSE j1
           j3 == IF Len(j2.robots) = 1 THEN startUpdates(j2, "getState") ELSE j2
       IN joystick' = j3
    /\ joystickOnly

\* connect(): a GATT step of the k-th pending call is rejected; the catch rethrows
joystickFail(k) ==
    /\ k \in 1..Len(joystick.connecting)
    /\ joystick' = [joystick EXCEPT !.connecting = RemoveAt(@, k)]
    /\ joystickOnly

\* handleDisconnection(robotId): the gattserverdisconnected listener that connect()
\* added for robotId (after disconnect, disconnectAll or a lost link)
joystickDisconnection(robotId) ==
    /\ robotId \in DOMAIN joystick.devices
    /\ IF robotId \in Range(joystick.robots)
       THEN LET j1 == [joystick EXCEPT !.robots = RemoveRobot(@, robotId)]
            IN joystick' = IF Len(j1.robots) = 0 THEN stopUpdates(j1) ELSE j1
       ELSE UNCHANGED joystick
    /\ joystickOnly

\* The joystick page: connect calls followed through their awaits and the
\* disconnection listeners of every robot registered so far
NextJoystick ==
    \/ \E d \in Devices : joystickSelect(d)
    \/ \E k \in 1..MaxConnecting : joystickRegister(k)
    \/ \E k \in 1..MaxConnecting : joystickFail(k)
    \/ \E r \in 1..MaxRegistered : joystickDisconnection(r)

SpecJoystick == Init /\ [][NextJoystick]_vars

\* saveActions(): localStorage.setItem, then onActionsChange
saveActions ==
    /\ storage' = actions'
    /\ saves' = saves + 1

\* createAction(actionData): a field actionData lacks is NULL
createAction(actionData) ==
    /\ generated' = generated + 1
    /\ actions' = Append(actions,
                         [id |-> GeneratedId(generated + 1),
                          name |-> Or(actionData.name, "New Action"),
                          icon |-> Or(actionData.icon, DefaultIcon),
                          color |-> Or(actionData.color, DefaultColor),
                          instructions |-> actionData.instructions])
    /\ saveActions
    /\ UNCHANGED <<robots, nextRobotId, linkVars, importResult, engineVars, calls, chunkVars, joystick>>

\* { ...this.actions[index], ...actionData, id: actionId }
Spread(action, actionData, actionId) ==
    [f \in DOMAIN action \cup DOMAIN actionData |->
        IF f = "id" THEN actionId
        ELSE IF f \in DOMAIN actionData THEN actionData[f]
        ELSE action[f]]

\* updateAction(actionId, actionData), actionData as the editor builds it
updateAction(actionId, actionData) ==
    /\ LET k == IndexOf(actions, actionId) IN
       IF k # 0
       THEN /\ actions' = [actions EXCEPT ![k] = Spread(@, actionData, actionId)]
            /\ saveActions
       ELSE \* return null
            UNCHANGED <<actions, storage, saves>>
    /\ UNCHANGED <<robots, nextRobotId, linkVars, generated, importResult, engineVars,
                   calls, chunkVars, joystick>>

\* deleteAction(actionId)
deleteAction(actionId) ==
    /\ LET k == IndexOf(actions, actionId) IN
       IF k # 0
       THEN /\ actions' = Splice(actions, k)
            /\ saveActions
       ELSE \* return false
            UNCHANGED <<actions, storage, saves>>
    /\ UNCHANGED <<robots, nextRobotId, linkVars, generated, importResult, engineVars,
                   calls, chunkVars, joystick>>

\* this.actions.splice(toIndex, 0, action), toIndex counted from 0
InsertAt(store, toIndex, action) ==
    [j \in 1..(Len(store) + 1) |->
        IF j <= toIndex THEN store[j]
        ELSE IF j = toIndex + 1 THEN action
        ELSE store[j - 1]]

\* reorderActions(fromIndex, toIndex), the indices counted from 0
reorderActions(fromIndex, toIndex) ==
    /\ IF fromIndex < 0 \/ toIndex < 0 \/ fromIndex >= Len(actions) \/ toIndex >= Len(actions)
       THEN \* return false
            UNCHANGED <<actions, storage, saves>>
       ELSE /\ actions' = InsertAt(Splice(actions, fromIndex + 1), toIndex,
                                   actions[fromIndex + 1])
            /\ saveActions
    /\ UNCHANGED <<robots, nextRobotId, linkVars, generated, importResult, engineVars,
                   calls, chunkVars, joystick>>

\* importActions(jsonString, replace)
importActions(input, replace) ==
    LET o == ImportOutcome(actions, generated, input, replace) IN
    /\ actions' = o.actions
    /\ generated' = o.generated
    /\ importResult' = o.result
    /\ IF o.saved THEN saveActions ELSE UNCHANGED <<storage, saves>>
    /\ UNCHANGED <<robots, nextRobotId, linkVars, engineVars, calls, chunkVars, joystick>>

\* The call would save the list (it would not fail)
Saves(input, replace) == ImportOutcome(actions, generated, input, replace).saved

\* The ids the editor is opened for and the lists it saves
EditIds == {"a1", "missing"}
EditData == { [instructions |-> << [tool |-> "wave", delay |-> 0] >>],
              [instructions |-> << [tool |-> "wave", delay |-> 0],
                                   [tool |-> "pose", delay |-> 500],
                                   [tool |-> "sit", delay |-> 0] >>] }
EditRunIds == {"a1"}

\* The engine used by one caller that starts a run only when none is in flight,
\* with the action store edited meanwhile
NextEdit ==
    \/ (nextRobotId <= MaxRunRobots /\ Connect)
    \/ \E a \in EditRunIds : (\A t \in 1..Len(calls) : ~InFlight(calls[t])) /\ runOnce(a)
    \/ \E a \in EditRunIds : (\A t \in 1..Len(calls) : ~InFlight(calls[t])) /\ runLoop(a)
    \/ requestStop
    \/ \E t \in 1..Len(calls), ok \in BOOLEAN : WriteDone(t, ok)
    \/ \E t \in 1..Len(calls) : TimerDone(t)
    \/ \E a \in EditIds, d \in EditData : saves < MaxSaves /\ updateAction(a, d)
    \/ \E a \in EditIds : saves < MaxSaves /\ deleteAction(a)
    \/ \E i \in ImportInputs, r \in BOOLEAN :
          (Saves(i, r) => saves < MaxSaves) /\ importActions(i, r)

SpecEdit == Init /\ [][NextEdit]_vars

\* What createAction and updateAction can be given: the object the editor or
\* createActionFromTool builds, or one that lacks fields or holds an empty name
CreateData == { [name |-> "Bow", icon |-> NULL, color |-> NULL,
                 instructions |-> << [tool |-> "bow", delay |-> 500] >>],
                [name |-> "", icon |-> "star", color |-> "#00ff00",
                 instructions |-> << >>] }
StoreData == { [name |-> "Wave", icon |-> "hand", color |-> "#0000ff",
                instructions |-> << [tool |-> "wave", delay |-> 0] >>],
               [name |-> ""] }
StoreIds == {"a1", "a3", "missing", GeneratedId(1)}
ReorderIndices == {-1, 0, 1, 4}

\* The action store alone, edited by any sequence of its operations
NextStore ==
    \/ \E d \in CreateData :
          saves < MaxStoreSaves /\ Len(actions) < MaxActions /\ createAction(d)
    \/ \E a \in StoreIds, d \in StoreData : saves < MaxStoreSaves /\ updateAction(a, d)
    \/ \E a \in StoreIds : saves < MaxStoreSaves /\ deleteAction(a)
    \/ \E from \in ReorderIndices, to \in ReorderIndices :
          saves < MaxStoreSaves /\ reorderActions(from, to)
    \/ \E i \in ImportInputs \cup {exportActions(actions)}, r \in BOOLEAN :
          /\ Saves(i, r) => saves < MaxStoreSaves
          /\ Len(ImportOutcome(actions, generated, i, r).actions) <= MaxActions
          /\ importActions(i, r)

SpecStore == Init /\ [][NextStore]_vars

\* ------------------------------------------------------------- reassembly
MsgId == "m"

\* The k-th slice (0-based) of the message robot r sends: distinct for every
\* robot and place, so a slice out of place or from another robot shows
Slice(r, k) == ToString(r) \o "." \o ToString(k) \o ";"
Split(r, n) == [k \in 1..n |-> Slice(r, k - 1)]

\* The message in full, as the robot had it before splitting
RECURSIVE JoinInOrder(_)
JoinInOrder(m) == IF m = <<>> THEN "" ELSE Head(m) \o JoinInOrder(Tail(m))

\* The chunk envelopes robot r can notify: the fragments of its message, the same
\* with an empty data, and one whose index is not below total
Inbound(r) ==
    LET n == totals[r] IN
       {[id |-> MsgId, index |-> k, total |-> n, data |-> Slice(r, k)] : k \in 0..(n - 1)}
    \cup {[id |-> MsgId, index |-> k, total |-> n, data |-> ""] : k \in 0..(n - 1)}
    \cup {[id |-> MsgId, index |-> n, total |-> n, data |-> "x"]}

\* A key that leaves the session out
KeyFromIdOnly(robotId, id) == id

\* const key = `${robotId}_${id}`
Key(robotId, id) == ToString(robotId) \o "_" \o id

\* { chunks: new Array(total), receivedCount: 0, total: total }: chunks is the
\* array's filled slots (0-based) and length its length
NewBuffer(total) ==
    [chunks |-> <<>>, length |-> total, receivedCount |-> 0, total |-> total]

\* The slice stored in arrival order, not at its index
StoreSlotInArrivalOrder(md, index, data) ==
    [md EXCEPT !.chunks = Put(md.chunks, IF index \in DOMAIN md.chunks THEN index
                                         ELSE Cardinality(DOMAIN md.chunks), data)]

\* messageData.chunks[index] = data
StoreSlot(md, index, data) ==
    [md EXCEPT !.chunks = Put(md.chunks, index, data),
               !.length = IF index + 1 > md.length THEN index + 1 ELSE md.length]

\* A check that takes every fragment for new
SlotAlwaysEmpty(md, index) == TRUE

\* messageData.chunks[index] === undefined
SlotEmpty(md, index) == index \notin DOMAIN md.chunks

\* A completion test that fires one fragment early
AllReceivedButOne(md) == md.receivedCount + 1 >= md.total

\* messageData.receivedCount === messageData.total
AllReceived(md) == md.receivedCount = md.total

\* messageData.chunks.join(''): the slots 0..length-1 in index order, a hole as ''
RECURSIVE JoinFrom(_, _)
JoinFrom(md, k) ==
    IF k >= md.length THEN ""
    ELSE (IF k \in DOMAIN md.chunks THEN md.chunks[k] ELSE "") \o JoinFrom(md, k + 1)
Join(md) == JoinFrom(md, 0)

\* handleChunkedMessage(robotId, chunk)
handleChunkedMessage(robotId, chunk) ==
    LET key == Key(robotId, chunk.id)
        had == key \in DOMAIN chunkedMessages
        md == IF had THEN chunkedMessages[key] ELSE NewBuffer(chunk.total)
        sn == IF key \in DOMAIN seen THEN seen[key] ELSE NothingSeen
    IN
    IF chunk.data = ""
    THEN \* if (!data) return;
         UNCHANGED <<chunkedMessages, completed, seen, finished>>
    ELSE IF ~SlotEmpty(md, chunk.index)
    THEN \* return; // Duplicate
         /\ chunkedMessages' = Put(chunkedMessages, key, md)
         /\ seen' = Put(seen, key, [sn EXCEPT !.dup = TRUE])
         /\ UNCHANGED <<completed, finished>>
    ELSE LET filled == [StoreSlot(md, chunk.index, chunk.data) EXCEPT
                           !.receivedCount = md.receivedCount + 1]
             now == [sn EXCEPT !.arrived = sn.arrived \cup {chunk.index},
                               !.inOrder = sn.inOrder /\ \A k \in sn.arrived : k < chunk.index,
                               !.stray = sn.stray \/ chunk.index >= chunk.total,
                               !.from = sn.from \cup {robotId}]
         IN IF AllReceived(filled)
            THEN /\ chunkedMessages' = Drop(chunkedMessages, key)
                 /\ seen' = Drop(seen, key)
                 /\ finished' = now
                 /\ completed' = Append(completed,
                        [robotId |-> robotId, id |-> chunk.id, message |-> Join(filled)])
            ELSE /\ chunkedMessages' = Put(chunkedMessages, key, filled)
                 /\ seen' = Put(seen, key, now)
                 /\ UNCHANGED <<completed, finished>>

\* handleNotification(robotId, event) for an event that carries a chunk envelope;
\* the listener exists from connect on
handleNotification(robotId, chunk) ==
    /\ robotId \in Range(robots)
    /\ Len(completed) < MaxCompleted
    /\ handleChunkedMessage(robotId, chunk)
    /\ UNCHANGED <<robots, nextRobotId, linkVars, storeVars, engineVars, calls, totals,
                   joystick>>

InitChunks ==
    /\ robots = <<>>
    /\ nextRobotId = 1
    /\ devices = <<>>
    /\ connecting = <<>>
    /\ robotsChanges = 0
    /\ absentCalls = {}
    /\ actions = InitialActions
    /\ storage = InitialActions
    /\ saves = 0
    /\ generated = 0
    /\ importResult = NoResult
    /\ isRunning = FALSE
    /\ shouldStop = FALSE
    /\ currentAction = NoAction
    /\ currentInstructionIndex = 0
    /\ loopCount = 0
    /\ runMode = "once"
    /\ calls = <<>>
    /\ lastError = NULL
    /\ chunkedMessages = <<>>
    /\ completed = <<>>
    /\ totals \in [1..MaxRobotId -> 1..MaxTotal]
    /\ seen = <<>>
    /\ finished = NothingSeen
    /\ joystick = InitJoystick

\* The reassembly with its registry: connects, disconnects, inbound chunks
NextChunks ==
    \/ Connect
    \/ \E r \in Range(robots) : handleDisconnection(r)
    \/ \E r \in 1..MaxRobotId : \E c \in Inbound(r) : handleNotification(r, c)

SpecChunks == InitChunks /\ [][NextChunks]_vars

\* ------------------------------------------------------------- properties
RunCalls == {t \in 1..Len(calls) : calls[t].kind = "run"}
BusCalls == {t \in 1..Len(calls) : calls[t].kind = "bus"}
Returned(t) == calls[t].pc = "done"

Places(h, ev) == {k \in 1..Len(h) : h[k].ev = ev}
EvCount(h, ev) == Cardinality(Places(h, ev))

\* The run is Starting (its start signal is being broadcast or the pause after it
\* runs) or Running (it steps instructions)
Starting(f) == f.kind = "run" /\ f.pc # "done" /\ f.stage = "start"
Running(f) == f.kind = "run" /\ f.pc # "done" /\ f.stage \in {"instr", "loop"}
RunActive == \E t \in RunCalls : Starting(calls[t]) \/ Running(calls[t])

\* C1: a runOnce/runLoop call made while an earlier run is Starting or Running is
\* rejected (no new run, an error surfaced) and leaves the earlier run's action,
\* mode, loop count and stop flag as they were.
C1_StartRejectedWhileActive ==
    [][\A a \in ActionIds, m \in Modes :
          (RunActive /\ StartRun(a, m))
              => /\ calls' = calls
                 /\ lastError' # NULL
                 /\ UNCHANGED <<currentAction, runMode, loopCount, shouldStop>>]_vars

\* Stop-signal broadcasts attempted for a run: its own sendStopSignal, and the
\* forceStop calls made while it was in flight
QuitCount(h) == EvCount(h, "quit") + EvCount(h, "fquit")
Ended(h) == EvCount(h, "completed") + EvCount(h, "failed") > 0

\* C2: every run that reached Completed or Failed, once it has returned, had exactly
\* one start-signal broadcast and exactly one stop-signal broadcast attempted, the
\* start signal before and the stop signal after every instruction dispatch of the run.
C2_BracketSymmetry ==
    \A t \in RunCalls :
        LET h == calls[t].hist IN
        (Returned(t) /\ Ended(h)) =>
            /\ EvCount(h, "wake") = 1
            /\ QuitCount(h) = 1
            /\ \A w \in Places(h, "wake"), d \in Places(h, "instr") : w < d
            /\ \A q \in Places(h, "quit") \cup Places(h, "fquit"), d \in Places(h, "instr") : d < q

\* C3: a run that has returned had exactly one stop-signal broadcast attempted for
\* it, counting the one of a forceStop that ended it and the one issued when
\* runOnce/runLoop returns.
C3_StopSignalOnce ==
    \A t \in RunCalls : Returned(t) => QuitCount(calls[t].hist) = 1

\* The last instruction dispatch of h before place p (0: none)
LastInstrBefore(h, p) ==
    LET before == {k \in Places(h, "instr") : k < p}
    IN IF before = {} THEN 0 ELSE CHOOSE k \in before : \A j \in before : j <= k

\* C4: in a repeat-mode run that was not force-stopped, a stop request made during
\* instruction i of iteration j is followed by the dispatch of every instruction
\* i+1..end of iteration j, and no instruction of a later iteration is dispatched.
C4_GracefulStopBoundary ==
    \A t \in RunCalls :
        LET f == calls[t]
            h == f.hist
        IN (Returned(t) /\ f.mode = "loop" /\ EvCount(h, "fquit") = 0) =>
              \A p \in Places(h, "stop") :
                  LET k == LastInstrBefore(h, p) IN
                  k # 0 =>
                     /\ \A i2 \in (h[k].i + 1)..(Len(f.action.instructions) - 1) :
                           \E q \in Places(h, "instr") :
                               q > p /\ h[q].n = h[k].n /\ h[q].i = i2
                     /\ \A q \in Places(h, "instr") : h[q].n <= h[k].n

RobotIds(results) == [k \in 1..Len(results) |-> results[k].robotId]

\* C5: the list a dispatch returns has exactly one entry per session that was live
\* when the dispatch started, whatever joins or leaves the registry meanwhile.
C5_OneEntryPerSessionLiveAtStart ==
    \A t \in BusCalls : Returned(t) => RobotIds(calls[t].results) = calls[t].snap

\* C6: a dispatch during which membership did not change returns one entry per
\* live session, in registry order; every write was attempted whatever failed
\* before it, and each entry reports how that session's write settled.
C6_FanOutCardinality ==
    \A t \in BusCalls :
        LET f == calls[t] IN
        (Returned(t) /\ ~f.changed) =>
            /\ Len(f.results) = Len(f.snap)
            /\ RobotIds(f.results) = f.snap
            /\ Len(f.writes) = Len(f.snap)
            /\ \A k \in 1..Len(f.results) :
                  /\ f.writes[k].robotId = f.snap[k]
                  /\ f.results[k].success = f.writes[k].ok

\* A dispatch to two sessions whose first write failed and whose second succeeded
C6_Witness ==
    \E t \in BusCalls :
        /\ Returned(t) /\ ~calls[t].changed
        /\ Len(calls[t].snap) = 2
        /\ ~calls[t].results[1].success
        /\ calls[t].results[2].success

Sessions == 1..MaxRobotId
NoBuffer == [chunks |-> <<>>, length |-> 0, receivedCount |-> -1, total |-> -1]
BufferOf(robotId, id) ==
    IF Key(robotId, id) \in DOMAIN chunkedMessages
    THEN chunkedMessages[Key(robotId, id)] ELSE NoBuffer
SeenOf(robotId, id) ==
    IF Key(robotId, id) \in DOMAIN seen THEN seen[Key(robotId, id)] ELSE NothingSeen

\* C7: a fragment that arrives for a slot of its (session, message id) buffer that
\* is already filled leaves every buffer's slots and fill count as they were and
\* emits nothing.
C7_DuplicateDiscarded ==
    [][\A r \in Sessions : \A c \in Inbound(r) :
          (/\ handleNotification(r, c)
           /\ c.data # ""
           /\ c.index \in DOMAIN BufferOf(r, c.id).chunks)
              => UNCHANGED <<chunkedMessages, completed>>]_vars

\* A buffer that is still open after one of its fragments arrived twice
C7_Witness ==
    \E r \in Sessions :
        /\ SeenOf(r, MsgId).dup
        /\ BufferOf(r, MsgId).receivedCount = 1
        /\ totals[r] = MaxTotal

\* C8: a message reconstructed from the fragments 0..n-1 of a split message, in
\* whatever order (and however often) they arrived, is the message as it was
\* before splitting, which is what in-order delivery reconstructs.
C8_OrderIndependent ==
    (completed # <<>> /\ ~finished.stray) =>
        LET last == completed[Len(completed)]
        IN last.message = JoinInOrder(Split(last.robotId, totals[last.robotId]))

\* A message of MaxTotal fragments reconstructed from an out-of-order delivery
C8_Witness ==
    /\ completed # <<>>
    /\ ~finished.stray
    /\ ~finished.inOrder
    /\ Cardinality(finished.arrived) = MaxTotal

\* C9: a fragment received on one session leaves the buffer every other session
\* has for the same message id untouched (slots and fill count), and a
\* reconstructed message is made of fragments of its own session only.
C9_NoCrossSessionBleed ==
    [][/\ \A r \in Sessions : \A c \in Inbound(r) :
             handleNotification(r, c) =>
                 \A other \in Sessions \ {r} :
                     /\ BufferOf(other, c.id)' = BufferOf(other, c.id)
                     /\ SeenOf(other, c.id)'.from \subseteq {other}
       /\ completed' # <<>> => finished'.from = {completed'[Len(completed')].robotId}]_vars

\* Two sessions reassembling the same message id at once, then one done
C9_Witness ==
    /\ \E k \in 1..Len(completed) : completed[k].robotId = 1 /\ completed[k].id = MsgId
    /\ BufferOf(2, MsgId).receivedCount = 1
    /\ totals[1] > 1 /\ totals[2] > 1

C11_BuffersDiscardedOnClose ==
    [][\A r \in Sessions :
          handleDisconnection(r) => Key(r, MsgId) \notin DOMAIN chunkedMessages']_vars

\* The list indices of the instructions a call dispatched, in dispatch order
RECURSIVE Dispatched(_)
Dispatched(h) ==
    IF h = <<>> THEN <<>>
    ELSE IF Head(h).ev = "instr" THEN <<Head(h).i>> \o Dispatched(Tail(h))
    ELSE Dispatched(Tail(h))

\* C12: a single-pass run that was neither force-stopped nor failed has, when it
\* has returned, dispatched each instruction of its action exactly once, in list
\* order, whether or not a stop was requested during the pass.
C12_SinglePassOnce ==
    \A t \in RunCalls :
        LET f == calls[t]
            h == f.hist
        IN (Returned(t) /\ f.mode = "once" /\ EvCount(h, "fquit") = 0
                /\ EvCount(h, "failed") = 0) =>
              Dispatched(h) = [k \in 1..Len(f.action.instructions) |-> k - 1]

\* C13: a repeat-mode run ends only after a stop request: a repeat-mode run that
\* reached Completed had a stop requested (requestStop while it was Running, or a
\* forceStop) before it completed.
C13_RepeatEndsOnlyAfterStop ==
    \A t \in RunCalls :
        LET h == calls[t].hist IN
        calls[t].mode = "loop" =>
            \A c \in Places(h, "completed") :
                \E p \in Places(h, "stop") \cup Places(h, "fquit") : p < c

\* C14: a runOnce/runLoop call for an action id that is not in the store, or made
\* when no robot is connected, is rejected: it surfaces an error, begins no call
\* (so no start or stop signal is broadcast), and leaves mode, current action,
\* loop count, stop flag and running flag as they are.
C14_StartRejectedNoActionNoRobot ==
    \A a \in ActionIds, m \in Modes :
        (getAction(actions, a) = NoAction \/ getConnectedCount(robots) = 0) =>
            LET o == StartOutcome(a, m)
            IN /\ ~o.accepted
               /\ o.s.lastError \in {"Action not found", "No robots connected",
                                      "Another action is already running"}
               /\ o.s.runMode = runMode
               /\ o.s.currentAction = currentAction
               /\ o.s.loopCount = loopCount
               /\ o.s.shouldStop = shouldStop
               /\ o.s.isRunning = isRunning

\* A start was rejected for want of robots after the only robot had left
C14_Witness ==
    /\ lastError = "No robots connected"
    /\ nextRobotId > 1
    /\ robots = <<>>

\* C15: an action with no instructions is not run: no runOnce/runLoop call is ever
\* begun (no start signal is broadcast) for an action whose instruction list is empty.
C15_EmptyActionNotRun ==
    \A t \in RunCalls : calls[t].action.instructions # <<>>

\* The engine and the call, leaving out what the dispatch returned
Outcomes(s) == [s EXCEPT !.f.results = <<>>, !.f.writes = <<>>]

\* C16: a rejected write of an instruction dispatch never halts the run: whenever
\* a run waits for such a write, its rejection raises no error and leaves the run
\* and the engine exactly where its success would (at the next write, at the
\* instruction's delay, at the next instruction, or Completed), and never Failed.
C16_SendFailureNotFatal ==
    \A t \in RunCalls :
        (calls[t].pc = "write" /\ calls[t].stage = "instr") =>
            /\ Outcomes(Settled(t, FALSE)) = Outcomes(Settled(t, TRUE))
            /\ Settled(t, FALSE).lastError = lastError
            /\ Settled(t, FALSE).f.pc # "catch"

\* A run that goes on (it waits out the delay of the first of its two
\* instructions, Running, nothing failed) after the write of that instruction
\* was rejected
C16_Witness ==
    \E t \in RunCalls :
        /\ calls[t].pc = "timer" /\ calls[t].stage = "instr"
        /\ calls[t].i + 1 < Len(currentAction.instructions)
        /\ isRunning
        /\ EvCount(calls[t].hist, "failed") = 0
        /\ calls[t].writes = <<[robotId |-> 1, ok |-> FALSE]>>

\* The instruction dispatches of a call, in dispatch order
InstrEvents(h) == SelectSeq(h, LAMBDA e : e.ev = "instr")

\* Each dispatch is of the instruction that follows the one dispatched before it
\* in the list, or of the first instruction of the call's next pass
InListOrder(d) ==
    /\ d # <<>> => d[1].i = 0
    /\ \A k \in 1..(Len(d) - 1) :
          \/ d[k + 1].n = d[k].n /\ d[k + 1].i = d[k].i + 1
          \/ d[k + 1].n = d[k].n + 1 /\ d[k + 1].i = 0

\* C17: within a run the instructions are dispatched in list order, one at a time:
\* while a write of instruction i is pending or its delay runs, i is the last
\* instruction dispatched; when a pending write settles, no later instruction is
\* dispatched in that step unless it was the write to the last session and the
\* instruction has no delay to wait for.
C17_InOrderNoPipelining ==
    \A t \in RunCalls :
        LET f == calls[t]
            d == InstrEvents(f.hist)
        IN /\ InListOrder(d)
           /\ (f.stage = "instr" /\ f.pc \in {"write", "timer"}) =>
                 d[Len(d)].i = f.i /\ d[Len(d)].n = f.pass
           /\ (f.stage = "instr" /\ f.pc = "write") =>
                 \A ok \in BOOLEAN :
                    LET g == Settled(t, ok).f
                    IN IF IterRest(robots, f.cur) # {}
                       THEN g.pc = "write" /\ g.stage = "instr" /\ g.hist = f.hist
                       ELSE f.instr.delay > 0 =>
                               g.pc = "timer" /\ g.stage = "instr" /\ g.hist = f.hist

\* A repeat-mode run in its second pass over a two-instruction list, waiting for
\* the write of the second instruction
C17_Witness ==
    \E t \in RunCalls :
        /\ calls[t].pc = "write" /\ calls[t].stage = "instr"
        /\ calls[t].pass = 2 /\ calls[t].i = 1
        /\ Len(InstrEvents(calls[t].hist)) = 4

ForceCalls == {u \in 1..Len(calls) : calls[u].kind = "force"}

\* No runOnce/runLoop call was accepted after the first forceStop that followed
\* the start of call t
NoRunStartedAfterForce(t) ==
    \A u \in ForceCalls : u > t => \A v \in RunCalls : v < u

\* C18: once forceStop has been called while a run is in flight, and no run is
\* started afterwards, the run dispatches no further instruction.
C18_ForceStopEndsDispatch ==
    \A t \in RunCalls :
        LET h == calls[t].hist IN
        NoRunStartedAfterForce(t) =>
            \A p \in Places(h, "fquit"), q \in Places(h, "instr") : q < p

\* C19: a run is reported Completed only after its stop-signal broadcast: the
\* run's own sendStopSignal precedes its 'completed' status and completion
\* notification.
C19_CompletedAfterStopSignal ==
    \A t \in RunCalls :
        LET h == calls[t].hist IN
        \A c \in Places(h, "completed") : \E q \in Places(h, "quit") : q < c

\* C20: a run that failed while stepping instructions attempts the stop-signal
\* broadcast: from the failure on, the run's sendStopSignal has been issued, after
\* its start signal and after the failure.
C20_FailedRunSendsStop ==
    \A t \in RunCalls :
        LET h == calls[t].hist IN
        \A c \in Places(h, "failed") :
            /\ \E q \in Places(h, "quit") : q > c
            /\ \E w \in Places(h, "wake") : w < c

\* A failed run that has returned after its stop-signal broadcast
C20_Witness ==
    \E t \in RunCalls :
        /\ Returned(t)
        /\ EvCount(calls[t].hist, "failed") = 1
        /\ EvCount(calls[t].hist, "quit") = 1
        /\ lastError = "TypeError"

\* The run has finished stepping and its stop signal is being broadcast, or the
\* pause after it runs: the engine is not yet Idle
Resetting(f) == f.kind = "run" /\ f.pc # "done" /\ f.stage = "stop"

\* C21: while a run has finished stepping and its stop-signal broadcast is still in
\* flight, every runOnce/runLoop call is rejected, so no start signal is broadcast
\* before that stop-signal broadcast has finished.
C21_StartRejectedWhileResetting ==
    \A t \in RunCalls :
        Resetting(calls[t]) => \A a \in ActionIds : StartError(a) # NULL

\* The identifiers in the Map increase in registration order
Increasing(rb) == \A j, k \in 1..Len(rb) : j < k => rb[j] < rb[k]

\* C22: robot ids are strictly increasing in registration order and never reused:
\* every registration, also of connect calls that overlap, adds exactly one robot
\* at the end of the Map, under an id greater than every id assigned before it
\* (live or freed by a disconnection); the Map never holds an id twice.
C22_IdsIncreasingNeverReused ==
    [][/\ nextRobotId' # nextRobotId =>
             /\ nextRobotId' > nextRobotId
             /\ Len(robots') = Len(robots) + 1
             /\ SubSeq(robots', 1, Len(robots)) = robots
             /\ \A q \in DOMAIN devices : q < robots'[Len(robots')]
             /\ robots'[Len(robots')] < nextRobotId'
       /\ nextRobotId' = nextRobotId => Range(robots') \subseteq Range(robots)
       /\ Increasing(robots')]_vars

\* Two connect calls overlapped (their robots share a device) after the first
\* robot had been disconnected and its id freed
C22_Witness ==
    /\ robots = <<2, 3>>
    /\ devices[2] = devices[3]
    /\ nextRobotId = 4

\* C23: a disconnection notification for a robot id that is not in the Map changes
\* nothing of the registry (Map, ids, devices), raises no error, calls
\* onRobotsChange not at all and marks no dispatch as having seen a membership change.
C23_RemoveAbsentIsNoOp ==
    [][\A r \in 1..MaxRegistered :
          (r \notin Range(robots) /\ handleDisconnection(r)) =>
              UNCHANGED <<robots, nextRobotId, devices, connecting, robotsChanges,
                          calls, lastError>>]_vars

\* The listener of a robot that had already been removed ran while another robot
\* was in the Map
C23_Witness ==
    /\ 1 \in absentCalls
    /\ 1 \notin Range(robots)
    /\ robots # <<>>
    /\ robotsChanges = nextRobotId - 1 + (nextRobotId - 1 - Len(robots))

\* C24: the Map never holds two robots of the same physical device, also when
\* connect calls for one device overlap.
C24_OneSessionPerDevice ==
    \A r1, r2 \in Range(robots) : devices[r1] = devices[r2] => r1 = r2

\* C25: a run dispatches the instruction list its action had when the run was
\* started, whatever updateAction, deleteAction or importActions do to the store
\* meanwhile: in every pass the dispatches are of that list's instructions, in
\* list order, the instruction in flight is that list's, and a completed run has
\* dispatched the whole of it in each of its passes.
C25_RunDispatchesSnapshot ==
    \A t \in RunCalls :
        LET f == calls[t]
            d == InstrEvents(f.hist)
            n == Len(f.action.instructions)
        IN /\ InListOrder(d)
           /\ \A k \in 1..Len(d) : d[k].i < n
           /\ (f.stage = "instr" /\ f.pc \in {"write", "timer"}) =>
                 f.instr = f.action.instructions[f.i + 1]
           /\ EvCount(f.hist, "completed") = 1 => Len(d) = f.pass * n

\* A repeat-mode run in its second pass, waiting for the write of its second
\* instruction, whose action was edited in (or deleted from) the store after the
\* run was started
C25_Witness ==
    \E t \in RunCalls :
        /\ calls[t].pc = "write" /\ calls[t].stage = "instr"
        /\ calls[t].pass = 2 /\ calls[t].i = 1
        /\ saves = 1
        /\ getAction(actions, calls[t].action.id) # calls[t].action

\* C26: importActions given text that is not JSON, or JSON that is not an array,
\* returns a failure with a reason and leaves the action list, the persisted
\* list, the count of saves (and so of onActionsChange calls) and the generated
\* ids as they were, in merge and in replace mode.
C26_BadImportChangesNothing ==
    [][\A input \in ImportInputs, replace \in BOOLEAN :
          (input.json # "array" /\ importActions(input, replace)) =>
              /\ ~importResult'.success
              /\ importResult'.error # NULL
              /\ UNCHANGED <<actions, storage, saves, generated>>]_vars

\* An import of JSON that is not an array failed on a store that had been edited
C26_Witness ==
    /\ ~importResult.success
    /\ importResult.error = "Invalid format: expected an array"
    /\ saves = 1
    /\ actions # InitialActions
    /\ storage = actions

\* Call t is an accepted runOnce call that has not returned / that has returned
OnceRunInFlight(t) ==
    IF t \in 1..Len(calls)
    THEN calls[t].kind = "run" /\ calls[t].mode = "once" /\ calls[t].pc # "done"
    ELSE FALSE
OnceRunReturned(t) ==
    IF t \in 1..Len(calls)
    THEN calls[t].kind = "run" /\ calls[t].mode = "once" /\ calls[t].pc = "done"
    ELSE FALSE

\* C27: every accepted single-pass run terminates: if every pending write settles
\* and every pending timer fires, a runOnce call that was accepted returns (its
\* stop-signal broadcast and the pause after it are over).
C27_SinglePassRunTerminates ==
    \A t \in 1..MaxCalls : OnceRunInFlight(t) ~> OnceRunReturned(t)

\* C28: a message is reconstructed only when every slot 0..total-1 of its buffer
\* was filled, and it is the concatenation of those slots in index order (the
\* message as it was before splitting); a fragment whose index is not below the
\* total does not count toward completion.
C28_EmittedOnlyWhenAllSlotsFilled ==
    completed # <<>> =>
        LET last == completed[Len(completed)]
            n == totals[last.robotId]
        IN /\ finished.arrived = 0..(n - 1)
           /\ last.message = JoinInOrder(Split(last.robotId, n))

\* C29: a message of a (session, message id) is reconstructed at most once:
\* fragments redelivered after it was completed and its buffer discarded never
\* complete it again.
C29_NoSecondEmission ==
    \A j, k \in 1..Len(completed) :
        j < k => ~(/\ completed[j].robotId = completed[k].robotId
                   /\ completed[j].id = completed[k].id)

\* The fill count of the buffer of (robotId, id); 0 when there is none
FillCount(robotId, id) ==
    IF Key(robotId, id) \in DOMAIN chunkedMessages
    THEN chunkedMessages[Key(robotId, id)].receivedCount ELSE 0

\* C30: every fragment a live session can deliver whose slot is not yet filled,
\* whatever its payload (an empty one too), fills that slot and raises the fill
\* count by exactly one, or completes the message.
C30_EveryFragmentFills ==
    \A r \in Sessions : \A c \in Inbound(r) :
        (/\ r \in Range(robots)
         /\ Len(completed) < MaxCompleted
         /\ c.index \notin DOMAIN BufferOf(r, c.id).chunks) =>
            ENABLED (/\ handleNotification(r, c)
                     /\ \/ Len(completed') = Len(completed) + 1
                        \/ /\ Key(r, c.id) \in DOMAIN chunkedMessages'
                           /\ c.index \in DOMAIN chunkedMessages'[Key(r, c.id)].chunks
                           /\ chunkedMessages'[Key(r, c.id)].receivedCount
                                  = FillCount(r, c.id) + 1)

\* C31: the iteration count the engine keeps equals the number of passes begun in
\* the current run: every progress event of a run reports the number of the pass
\* it belongs to (1 in a single-pass run, j in the j-th iteration of a repeat
\* run), and so does loopCount while the run waits inside a pass.
C31_LoopCountIsPassCount ==
    \A t \in RunCalls :
        LET f == calls[t]
            h == f.hist
        IN /\ \A p \in Places(h, "instr") :
                 /\ h[p].lc = h[p].n
                 /\ f.mode = "once" => h[p].lc = 1
           /\ (f.stage = "instr" /\ f.pc \in {"write", "timer"}) => loopCount = f.pass

\* Terminal notifications surfaced for a run: its own notifyComplete(true) or
\* notifyError, and the notifyComplete(false, 'Force stopped') of each forceStop
\* call made while it was in flight
Terminal(h) == EvCount(h, "completed") + EvCount(h, "failed") + EvCount(h, "fquit")

\* C32: every accepted run surfaces exactly one terminal notification (one
\* completion or one error) on every exit path: once the run and the forceStop
\* calls made during it have returned, exactly one was surfaced for it.
C32_OneTerminalNotification ==
    \A t \in RunCalls :
        (Returned(t) /\ \A u \in ForceCalls : Returned(u)) => Terminal(calls[t].hist) = 1

\* C33: at most one instruction loop is ever stepping: after forceStop was called
\* for a run, the run's loop dispatches no further instruction, also when a new
\* run is accepted before the loop reaches its next per-instruction check, and
\* the instruction a run has in flight is always one of its own action's list.
C33_ForcedLoopStepsNoMore ==
    \A t \in RunCalls :
        LET f == calls[t]
            h == f.hist
        IN /\ \A p \in Places(h, "fquit"), q \in Places(h, "instr") : q < p
           /\ (f.stage = "instr" /\ f.pc \in {"write", "timer"}) =>
                 /\ f.i < Len(f.action.instructions)
                 /\ f.instr = f.action.instructions[f.i + 1]

\* The step issues an instruction write of run t to session r
IssuesInstructionWrite(t, r) ==
    /\ calls'[t].pc = "write" /\ calls'[t].stage = "instr" /\ calls'[t].cur = r
    /\ ~(/\ calls[t].pc = "write" /\ calls[t].stage = "instr" /\ calls[t].cur = r
         /\ calls[t].i = calls'[t].i /\ calls[t].pass = calls'[t].pass)

\* A stop-signal write of run t was issued to session r: by the run's own
\* sendStopSignal, or by a forceStop called while the run was in flight whose
\* broadcast has reached r
StopWriteIssued(t, r) ==
    \/ /\ calls[t].stage = "stop"
       /\ r \in {calls[t].writes[k].robotId : k \in 1..Len(calls[t].writes)} \cup {calls[t].cur}
    \/ \E u \in ForceCalls :
          /\ u > t
          /\ EvCount(calls[t].hist, "fquit") > 0
          /\ calls[u].pc = "write"
          /\ r \in {calls[u].writes[k].robotId : k \in 1..Len(calls[u].writes)} \cup {calls[u].cur}

\* C34: for every run and every session, the run's stop-signal write is the last
\* write of the run issued to that session: no instruction write of the run is
\* issued to a session after a stop-signal write of the run was issued to it,
\* also when the run was force-stopped while an instruction dispatch was in flight.
C34_StopWriteIsLast ==
    [][\A t \in RunCalls, r \in Sessions :
          IssuesInstructionWrite(t, r) => ~StopWriteIssued(t, r)]_vars

\* C35: in repeat mode a graceful stop request made at any time after the start
\* request was accepted, also while the start signal is still being broadcast, is
\* honoured: whenever a repeat-mode run is Starting or Running, a requestStop call
\* made now sets the stop flag that ends the run at the end of its pass.
C35_StopRequestHonoured ==
    \A t \in RunCalls :
        (calls[t].mode = "loop" /\ (Starting(calls[t]) \/ Running(calls[t]))) =>
            ENABLED (requestStop /\ shouldStop')

\* C36: after any sequence of createAction, updateAction, deleteAction,
\* reorderActions and importActions (merge or replace) the actions in the store
\* have pairwise distinct identifiers, so getAction(id) denotes at most one action.
C36_IdsPairwiseDistinct ==
    \A j, k \in 1..Len(actions) : actions[j].id = actions[k].id => j = k

\* Every action of the store has a non-empty id, name, icon and color, and every
\* instruction a non-empty tool name
WellFormed(store) ==
    \A k \in 1..Len(store) :
        /\ \A f \in {"id", "name", "icon", "color"} : store[k][f] \notin {NULL, ""}
        /\ \A j \in 1..Len(store[k].instructions) :
              store[k].instructions[j].tool \notin {NULL, ""}

Unmatched(store, valid) == SelectSeq(valid, LAMBDA a : a.id \notin ActionIdsOf(store))

\* C38: importActions in merge mode never removes, reorders or modifies an action
\* that was in the store: for every array it can be given, the stored actions
\* remain a prefix of the new list, and what follows them are exactly the imported
\* actions whose id matches no stored action, each under a newly generated id.
C38_MergeKeepsExisting ==
    \A input \in ImportInputs \cup {exportActions(actions)} :
        LET o == ImportOutcome(actions, generated, input, FALSE)
            c == CleanItems(input.items, generated)
            n == Len(actions)
            u == Unmatched(actions, c.list)
        IN IF input.json = "array" /\ ~c.threw
           THEN /\ o.result.success
                /\ Len(o.actions) = n + Len(u)
                /\ SubSeq(o.actions, 1, n) = actions
                /\ \A k \in 1..Len(u) :
                      /\ [o.actions[n + k] EXCEPT !.id = u[k].id] = u[k]
                      /\ o.actions[n + k].id \notin ActionIdsOf(actions)
           ELSE o.actions = actions

\* A merge import of an array of two actions, one whose id was in the store and
\* one whose id was not, into a store that had been edited: one action was appended
C38_Witness ==
    /\ importResult.success
    /\ importResult.count = 2
    /\ saves = 2
    /\ Len(actions) = Len(InitialActions)
    /\ actions[Len(actions)].name = "Bow"
    /\ actions[Len(actions)].id = GeneratedId(1)
    /\ "a1" \in ActionIdsOf(actions)
    /\ "a3" \notin ActionIdsOf(actions)

\* C39: the count a successful importActions returns equals the number of actions
\* the call added to the store in merge mode, or placed in the store in replace
\* mode, for every array it can be given.
C39_CountIsWhatWasImported ==
    [][\A input \in ImportInputs, replace \in BOOLEAN :
          (importActions(input, replace) /\ importResult'.success) =>
              importResult'.count = IF replace THEN Len(actions')
                                    ELSE Len(actions') - Len(actions)]_vars

\* C40: in the joystick page's service, after any sequence of connects and
\* disconnects the periodic state-update timer is active exactly when at least one
\* robot is connected, and at most one such timer exists at any time: the
\* intervals set and not cleared are the one updateInterval holds, or none.
C40_OneTimerIffConnected ==
    /\ (joystick.updateInterval # NoTimer) <=> (Len(joystick.robots) > 0)
    /\ Cardinality(joystick.timers) <= 1
    /\ joystick.timers = IF joystick.updateInterval = NoTimer THEN {}
                         ELSE {joystick.updateInterval}

\* Two robots are connected on the second timer: the first timer was cleared when
\* the first robot left, and handleConnect has given the callback since
C40_Witness ==
    /\ joystick.robots = <<2, 3>>
    /\ joystick.updateInterval = 2
    /\ joystick.timers = {2}
    /\ joystick.updateCallback = "getState"

====
